---- MODULE Spec2Model ----
(***************************************************************************)
(* State-machine model of the AccountList Lightning web component          *)
(* (force-app/main/default/lwc/accountList/accountList.js).                *)
(*                                                                         *)
(* One action per handler or promise continuation.  A user event runs to   *)
(* completion as one step; the continuations of a remote call (.then,      *)
(* .catch, .finally) are microtasks: once one is queued no user event is   *)
(* dispatched before it has run.                                           *)
(***************************************************************************)
EXTENDS Naturals, Sequences, FiniteSets

VARIABLES
    accounts,             \* @track accounts: [set, rows]; set = FALSE is undefined
    error,                \* @track error: Undef or the fetch error
    isLoading,            \* @track isLoading
    accountName, accountIndustry, accountPhone, accountDescription, accountSite,
    editRecordId, editName, editIndustry, editPhone, editDescription, editSite,
    wiredAccountsResult,  \* this.wiredAccountsResult
    isEditingThisRow,     \* row flag written by renderedCallback
    chains,               \* the pending promise chains, by slot
    toasts,               \* the ShowToastEvents dispatched by the last handler run
    refreshed,            \* the number of refreshApex calls of the last handler run
    nInputs,              \* number of changes made to fields other than accountName
    lastOp                \* the handler or continuation that ran last

createVars == <<accountName, accountIndustry, accountPhone, accountDescription, accountSite>>
editVars   == <<editRecordId, editName, editIndustry, editPhone, editDescription, editSite>>
cacheVars  == <<accounts, error, wiredAccountsResult>>
outVars    == <<toasts, refreshed>>

vars == <<accounts, error, isLoading, accountName, accountIndustry, accountPhone,
          accountDescription, accountSite, editRecordId, editName, editIndustry,
          editPhone, editDescription, editSite, wiredAccountsResult,
          isEditingThisRow, chains, toasts, refreshed, nInputs, lastOp>>

-----------------------------------------------------------------------------
(* Bounds of the model *)

MaxCalls == 2       \* create/update/delete calls pending at the same time
MaxInputs == 1      \* changes to fields other than accountName, in one run

-----------------------------------------------------------------------------
(* JavaScript values *)

Undef == "undefined"
Null == "null"

\* A test for null and undefined only, the empty string passing
TruthyNotNull(v) == v \notin {Undef, Null}

\* JavaScript truthiness of a string-or-missing value
Truthy(v) == v \notin {Undef, Null, ""}

\* record.X copied without the || '' default
OrEmptyRaw(v) == v

\* v || ''
OrEmpty(v) == IF Truthy(v) THEN v ELSE ""

NoArray == [set |-> FALSE, rows |-> <<>>]
SomeArray(rows) == [set |-> TRUE, rows |-> rows]

\* Account records as the service returns them; a field it omits is Undef
Acme == [Id |-> "1", Name |-> "Acme", Industry |-> Undef, Phone |-> Undef,
         Description |-> Undef, Site |-> Undef]
Beta == [Id |-> "2", Name |-> "Beta", Industry |-> "Tech", Phone |-> "555",
         Description |-> "desc", Site |-> "site"]

Collections == { <<>>, <<Acme, Beta>> }
FetchErrors == { "FetchError" }

\* event.target.dataset.id of an Edit button
Ids == { "1", "2", "999" }

\* event.target.dataset.id of a Delete button
DeleteIds == { "1" }

\* event.target.value of an input
InputValues == { "", "x" }

EditFieldNames == { "editName", "editIndustry", "editPhone", "editDescription", "editSite" }
FieldNames == EditFieldNames \cup { "other" }

\* Rejection values of a remote call: no body, a body without message, a body
\* with the service's message
Rejections == { [hasBody |-> FALSE, message |-> Undef],
                [hasBody |-> TRUE,  message |-> Undef],
                [hasBody |-> TRUE,  message |-> "Service error"] }

NoResult == [set |-> FALSE, data |-> NoArray, error |-> Undef]
WireResults ==
    { [set |-> TRUE, data |-> NoArray, error |-> Undef] }
    \cup { [set |-> TRUE, data |-> SomeArray(c), error |-> Undef] : c \in Collections }
    \cup { [set |-> TRUE, data |-> NoArray, error |-> e] : e \in FetchErrors }

\* What ran last (renders apart): the handler, its argument, the path it took,
\* and the chain it belongs to (0 for a handler that is not a continuation)
Op(name, arg, out) == [op |-> name, arg |-> arg, out |-> out, chain |-> 0]
ChainOp(name, kind, out, i) == [op |-> name, arg |-> kind, out |-> out, chain |-> i]

-----------------------------------------------------------------------------
(* Promise chains *)

\* remote(...).then(A).catch(B).finally(C): st is the position of the chain
\*   "remote"   the remote call is in flight
\*   "then"     the call resolved, A is queued
\*   "refresh"  A returned refreshApex(...), which is in flight
\*   "catch"    a rejection (of the call, or of the refresh) is queued for B
\*   "finally"  C is queued
\* args are the arguments of the call, kept until A has run; remote is how
\* the remote call settled; threw is whether B threw.
\* A slot is Free before a call takes it and again once C has run.
Args(id, name, industry, phone, description, site) ==
    [accountId |-> id, name |-> name, industry |-> industry, phone |-> phone,
     description |-> description, site |-> site]

NoArgs == Args(Undef, Undef, Undef, Undef, Undef, Undef)

Free == [kind |-> "none", st |-> "free", args |-> NoArgs, remote |-> "none",
         threw |-> FALSE]

NewChain(kind, args) ==
    [kind |-> kind, st |-> "remote", args |-> args, remote |-> "pending",
     threw |-> FALSE]

Slots == 1..MaxCalls

FreeSlots == { i \in Slots : chains[i].st = "free" }

\* The slot the next call takes
NextSlot == CHOOSE i \in FreeSlots : \A j \in FreeSlots : i <= j

\* A call dropped while another one is in flight
CallUnlessLoading(kind, args) ==
    IF isLoading
      THEN chains' = chains
      ELSE /\ FreeSlots # {}
           /\ chains' = [chains EXCEPT ![NextSlot] = NewChain(kind, args)]

\* The call started: the promise chain of remote(args) is pending
Call(kind, args) ==
    /\ FreeSlots # {}
    /\ chains' = [chains EXCEPT ![NextSlot] = NewChain(kind, args)]

\* A continuation is queued: the event loop runs it before any other event
MicrotaskQueued == \E i \in Slots : chains[i].st \in {"then", "catch", "finally"}

\* this.template.querySelector('lightning-card[data-current-id]'): the first
\* card in document order, one card per cached row; Undef when there is none
CurrentCardId(accts) ==
    IF accts.set /\ Len(accts.rows) > 0 THEN accts.rows[1].Id ELSE Undef

\* The value renderedCallback computes for isEditingThisRow
RowFlag(editId, accts) ==
    IF CurrentCardId(accts) # Undef THEN editId = CurrentCardId(accts) ELSE FALSE

\* A change of the tracked state has queued a render that has not run yet
RenderPending == isEditingThisRow # RowFlag(editRecordId, accounts)

\* Continuations and renders run before the next event is dispatched
Busy == MicrotaskQueued \/ RenderPending

\* showToast(title, message, variant)
ShowToast(title, message, variant) ==
    toasts' = << [title |-> title, message |-> message, variant |-> variant] >>

NoToast == toasts' = << >>

-----------------------------------------------------------------------------
Init ==
    /\ accounts = NoArray
    /\ error = Undef
    /\ isLoading = FALSE
    /\ accountName = "" /\ accountIndustry = "" /\ accountPhone = ""
    /\ accountDescription = "" /\ accountSite = ""
    /\ editRecordId = Null
    /\ editName = "" /\ editIndustry = "" /\ editPhone = ""
    /\ editDescription = "" /\ editSite = ""
    /\ wiredAccountsResult = NoResult
    /\ isEditingThisRow = FALSE
    /\ chains = [i \in Slots |-> Free]
    /\ toasts = << >>
    /\ refreshed = 0
    /\ nInputs = 0
    /\ lastOp = Op("constructor", "", "")

-----------------------------------------------------------------------------
(* The wire adapter delivers a result *)

\* wiredAccounts without "this.accounts = undefined" in the error branch
WiredAccountsStale(result) ==
    IF result.data.set THEN result.data ELSE accounts

\* this.accounts after wiredAccounts(result)
WiredAccountsValue(result) ==
    IF result.data.set THEN result.data
    ELSE IF result.error # Undef THEN NoArray
    ELSE accounts

\* this.error after wiredAccounts(result)
WiredErrorValue(result) ==
    IF result.data.set THEN Undef
    ELSE IF result.error # Undef THEN result.error
    ELSE error

wiredAccounts(result) ==
    /\ ~Busy
    \* the result without data and error is the adapter's first provisioning
    /\ (~result.data.set /\ result.error = Undef) => ~wiredAccountsResult.set
    /\ wiredAccountsResult' = result
    /\ accounts' = WiredAccountsValue(result)
    /\ error' = WiredErrorValue(result)
    /\ IF ~result.data.set /\ result.error # Undef
         THEN ShowToast("Error", "Error loading accounts", "error")
         ELSE NoToast
    /\ refreshed' = 0
    /\ lastOp' = Op("wiredAccounts",
                    IF result.data.set THEN "data"
                    ELSE IF result.error # Undef THEN "error" ELSE "empty", "")
    /\ UNCHANGED <<isLoading, createVars, editVars, isEditingThisRow, chains,
                   nInputs>>

WiredAccounts == \E result \in WireResults : wiredAccounts(result)

-----------------------------------------------------------------------------
(* Create-form input handlers *)

\* The input budget: a change of a field other than accountName takes one unit
Count(changed) ==
    /\ changed => nInputs < MaxInputs
    /\ nInputs' = IF changed THEN nInputs + 1 ELSE nInputs

\* A change event carries a value other than the one the field holds
InputEvent(name, value, old) ==
    /\ ~Busy
    /\ value # old
    /\ Count(name # "handleNameChange")
    /\ lastOp' = Op(name, "", value)
    /\ NoToast
    /\ refreshed' = 0
    /\ UNCHANGED <<isLoading, cacheVars, editVars, isEditingThisRow, chains>>

handleNameChange(value) ==
    /\ InputEvent("handleNameChange", value, accountName)
    /\ accountName' = value
    /\ UNCHANGED <<accountIndustry, accountPhone, accountDescription, accountSite>>

handleIndustryChange(value) ==
    /\ InputEvent("handleIndustryChange", value, accountIndustry)
    /\ accountIndustry' = value
    /\ UNCHANGED <<accountName, accountPhone, accountDescription, accountSite>>

handlePhoneChange(value) ==
    /\ InputEvent("handlePhoneChange", value, accountPhone)
    /\ accountPhone' = value
    /\ UNCHANGED <<accountName, accountIndustry, accountDescription, accountSite>>

handleDescriptionChange(value) ==
    /\ InputEvent("handleDescriptionChange", value, accountDescription)
    /\ accountDescription' = value
    /\ UNCHANGED <<accountName, accountIndustry, accountPhone, accountSite>>

handleSiteChange(value) ==
    /\ InputEvent("handleSiteChange", value, accountSite)
    /\ accountSite' = value
    /\ UNCHANGED <<accountName, accountIndustry, accountPhone, accountDescription>>

HandleNameChange == \E value \in InputValues : handleNameChange(value)
HandleIndustryChange == \E value \in InputValues : handleIndustryChange(value)
HandlePhoneChange == \E value \in InputValues : handlePhoneChange(value)
HandleDescriptionChange == \E value \in InputValues : handleDescriptionChange(value)
HandleSiteChange == \E value \in InputValues : handleSiteChange(value)

-----------------------------------------------------------------------------
(* Create *)

\* createAccount({...}) with industry and phone exchanged
CreateArgsSwapped ==
    Args(Null, accountName, accountPhone, accountIndustry, accountDescription,
         accountSite)

\* The argument object of createAccount({...})
CreateArgs ==
    Args(Null, accountName, accountIndustry, accountPhone, accountDescription,
         accountSite)

\* handleCreateAccount without its validation
CreateValidAlways == TRUE

\* if (!this.accountName) { ... return; }
CreateValid == Truthy(accountName)

\* handleCreateAccount clearing the form at submit, before the call has resolved
handleCreateAccountOptimistic ==
    /\ ~Busy
    /\ IF ~CreateValid
         THEN /\ ShowToast("Error", "Account name is required", "error")
              /\ lastOp' = Op("handleCreateAccount", "", "invalid")
              /\ UNCHANGED <<isLoading, chains, createVars>>
         ELSE /\ isLoading' = TRUE
              /\ Call("create", CreateArgs)
              /\ lastOp' = Op("handleCreateAccount", "", "called")
              /\ NoToast
              /\ accountName' = "" /\ accountIndustry' = "" /\ accountPhone' = ""
              /\ accountDescription' = "" /\ accountSite' = ""
    /\ refreshed' = 0
    /\ UNCHANGED <<cacheVars, editVars, isEditingThisRow, nInputs>>

handleCreateAccount ==
    /\ ~Busy
    /\ IF ~CreateValid
         THEN /\ ShowToast("Error", "Account name is required", "error")
              /\ lastOp' = Op("handleCreateAccount", "", "invalid")
              /\ UNCHANGED <<isLoading, chains>>
         ELSE /\ isLoading' = TRUE
              /\ Call("create", CreateArgs)
              /\ lastOp' = Op("handleCreateAccount", "", "called")
              /\ NoToast
    /\ refreshed' = 0
    /\ UNCHANGED <<cacheVars, createVars, editVars, isEditingThisRow, nInputs>>

-----------------------------------------------------------------------------
(* Delete *)

\* handleDeleteAccount raising the loading flag before it asks for confirmation
handleDeleteAccountEager(accountId, confirmed) ==
    /\ ~Busy
    /\ isLoading' = TRUE
    /\ IF confirmed
         THEN /\ Call("delete", Args(accountId, Undef, Undef, Undef, Undef, Undef))
              /\ lastOp' = Op("handleDeleteAccount", "", "confirmed")
         ELSE /\ lastOp' = Op("handleDeleteAccount", "", "declined")
              /\ UNCHANGED chains
    /\ NoToast
    /\ refreshed' = 0
    /\ UNCHANGED <<cacheVars, createVars, editVars, isEditingThisRow, nInputs>>

handleDeleteAccount(accountId, confirmed) ==
    /\ ~Busy
    /\ IF confirmed
         THEN /\ isLoading' = TRUE
              /\ Call("delete", Args(accountId, Undef, Undef, Undef, Undef, Undef))
              /\ lastOp' = Op("handleDeleteAccount", "", "confirmed")
         ELSE /\ lastOp' = Op("handleDeleteAccount", "", "declined")
              /\ UNCHANGED <<isLoading, chains>>
    /\ NoToast
    /\ refreshed' = 0
    /\ UNCHANGED <<cacheVars, createVars, editVars, isEditingThisRow, nInputs>>

HandleDeleteAccount ==
    \E accountId \in DeleteIds, confirmed \in BOOLEAN :
        handleDeleteAccount(accountId, confirmed)

-----------------------------------------------------------------------------
(* Edit *)

\* this.accounts.find(a => a.Id === accountId): the index of the first match, 0 if none
RECURSIVE FindFrom(_, _, _)
FindFrom(rows, accountId, k) ==
    IF k > Len(rows) THEN 0
    ELSE IF rows[k].Id = accountId THEN k
    ELSE FindFrom(rows, accountId, k + 1)

Find(rows, accountId) == FindFrom(rows, accountId, 1)

handleStartEdit(accountId) ==
    /\ ~Busy
    /\ IF ~accounts.set
         THEN \* this.accounts is undefined: .find throws a TypeError
              /\ lastOp' = Op("handleStartEdit", accountId, "TypeError")
              /\ NoToast
              /\ UNCHANGED editVars
         ELSE IF Find(accounts.rows, accountId) = 0
           THEN /\ ShowToast("Error", "Account not found in the current list", "error")
                /\ lastOp' = Op("handleStartEdit", accountId, "notFound")
                /\ UNCHANGED editVars
           ELSE LET record == accounts.rows[Find(accounts.rows, accountId)] IN
                /\ editRecordId' = accountId
                /\ editName' = OrEmpty(record.Name)
                /\ editIndustry' = OrEmpty(record.Industry)
                /\ editPhone' = OrEmpty(record.Phone)
                /\ editDescription' = OrEmpty(record.Description)
                /\ editSite' = OrEmpty(record.Site)
                /\ lastOp' = Op("handleStartEdit", accountId, "found")
                /\ NoToast
    /\ refreshed' = 0
    /\ UNCHANGED <<isLoading, cacheVars, createVars, isEditingThisRow, chains,
                   nInputs>>

HandleStartEdit == \E accountId \in Ids : handleStartEdit(accountId)

\* handleEditFieldChange whose editIndustry branch also assigns editPhone
handleEditFieldChangeTwo(field, value) ==
    /\ ~Busy
    /\ field = "editName" => value # editName
    /\ field = "editIndustry" => value # editIndustry
    /\ field = "editPhone" => value # editPhone
    /\ field = "editDescription" => value # editDescription
    /\ field = "editSite" => value # editSite
    /\ editName' = IF field = "editName" THEN value ELSE editName
    /\ editIndustry' = IF field = "editIndustry" THEN value ELSE editIndustry
    /\ editPhone' = IF field \in {"editIndustry", "editPhone"} THEN value ELSE editPhone
    /\ editDescription' = IF field = "editDescription" THEN value ELSE editDescription
    /\ editSite' = IF field = "editSite" THEN value ELSE editSite
    /\ Count(<<editName', editIndustry', editPhone', editDescription', editSite'>>
                 # <<editName, editIndustry, editPhone, editDescription, editSite>>)
    /\ lastOp' = Op("handleEditFieldChange", field, value)
    /\ NoToast
    /\ refreshed' = 0
    /\ UNCHANGED <<isLoading, cacheVars, createVars, editRecordId, isEditingThisRow,
                   chains>>

handleEditFieldChange(field, value) ==
    /\ ~Busy
    /\ field = "editName" => value # editName
    /\ field = "editIndustry" => value # editIndustry
    /\ field = "editPhone" => value # editPhone
    /\ field = "editDescription" => value # editDescription
    /\ field = "editSite" => value # editSite
    /\ editName' = IF field = "editName" THEN value ELSE editName
    /\ editIndustry' = IF field = "editIndustry" THEN value ELSE editIndustry
    /\ editPhone' = IF field = "editPhone" THEN value ELSE editPhone
    /\ editDescription' = IF field = "editDescription" THEN value ELSE editDescription
    /\ editSite' = IF field = "editSite" THEN value ELSE editSite
    /\ Count(<<editName', editIndustry', editPhone', editDescription', editSite'>>
                 # <<editName, editIndustry, editPhone, editDescription, editSite>>)
    /\ lastOp' = Op("handleEditFieldChange", field, value)
    /\ NoToast
    /\ refreshed' = 0
    /\ UNCHANGED <<isLoading, cacheVars, createVars, editRecordId, isEditingThisRow,
                   chains>>

HandleEditFieldChange ==
    \E field \in FieldNames, value \in InputValues : handleEditFieldChange(field, value)

\* handleCancelEdit() leaving editSite as it is
CancelEditKeepsSite ==
    /\ editRecordId' = Null
    /\ editName' = ""
    /\ editIndustry' = ""
    /\ editPhone' = ""
    /\ editDescription' = ""
    /\ UNCHANGED editSite

\* The assignments of handleCancelEdit()
CancelEdit ==
    /\ editRecordId' = Null
    /\ editName' = ""
    /\ editIndustry' = ""
    /\ editPhone' = ""
    /\ editDescription' = ""
    /\ editSite' = ""

\* handleCancelEdit() that also clears the loading flag
handleCancelEditClearsLoading ==
    /\ ~Busy
    /\ CancelEdit
    /\ isLoading' = FALSE
    /\ lastOp' = Op("handleCancelEdit", lastOp.op, lastOp.out)
    /\ NoToast
    /\ refreshed' = 0
    /\ UNCHANGED <<cacheVars, createVars, isEditingThisRow, chains, nInputs>>

handleCancelEdit ==
    /\ ~Busy
    /\ CancelEdit
    \* arg: the handler that ran before this one
    /\ lastOp' = Op("handleCancelEdit", lastOp.op, lastOp.out)
    /\ NoToast
    /\ refreshed' = 0
    /\ UNCHANGED <<isLoading, cacheVars, createVars, isEditingThisRow, chains,
                   nInputs>>

\* The argument object of updateAccount({...})
UpdateArgs ==
    Args(editRecordId, editName, editIndustry, editPhone, editDescription, editSite)

handleSaveEdit ==
    /\ ~Busy
    /\ IF ~Truthy(editRecordId)
         THEN /\ ShowToast("Error", "No record selected for update", "error")
              /\ lastOp' = Op("handleSaveEdit", "", "noRecord")
              /\ UNCHANGED <<isLoading, chains>>
         ELSE IF ~Truthy(editName)
           THEN /\ ShowToast("Error", "Name is required", "error")
                /\ lastOp' = Op("handleSaveEdit", "", "noName")
                /\ UNCHANGED <<isLoading, chains>>
           ELSE /\ isLoading' = TRUE
                /\ Call("update", UpdateArgs)
                /\ lastOp' = Op("handleSaveEdit", "", "called")
                /\ NoToast
    /\ refreshed' = 0
    /\ UNCHANGED <<cacheVars, createVars, editVars, isEditingThisRow, nInputs>>

-----------------------------------------------------------------------------
(* Render *)

renderedCallback ==
    /\ RenderPending
    /\ isEditingThisRow' = RowFlag(editRecordId, accounts)
    /\ UNCHANGED <<isLoading, cacheVars, createVars, editVars, chains, nInputs,
                   outVars, lastOp>>

-----------------------------------------------------------------------------
(* Settlement of the remote calls and of refreshApex *)

Settled(i, st, remote, name) ==
    /\ ~Busy
    /\ chains' = [chains EXCEPT ![i].st = st, ![i].remote = remote]
    /\ lastOp' = ChainOp(name, chains[i].kind, "", i)
    /\ NoToast
    /\ refreshed' = 0
    /\ UNCHANGED <<isLoading, cacheVars, createVars, editVars, isEditingThisRow,
                   nInputs>>

RemoteResolve(i) ==
    /\ chains[i].st = "remote"
    /\ Settled(i, "then", "resolved", "resolve")

RemoteReject(i) ==
    /\ chains[i].st = "remote"
    /\ Settled(i, "catch", "rejected", "reject")

RefreshResolve(i) ==
    /\ chains[i].st = "refresh"
    /\ Settled(i, "finally", chains[i].remote, "refreshResolve")

RefreshReject(i) ==
    /\ chains[i].st = "refresh"
    /\ Settled(i, "catch", chains[i].remote, "refreshReject")

-----------------------------------------------------------------------------
(* Continuations *)

\* The message of the success toast of each .then
SuccessMessage(kind) ==
    CASE kind = "create" -> "Account created successfully"
      [] kind = "delete" -> "Account deleted successfully"
      [] kind = "update" -> "Account updated successfully"

\* .then of createAccount: toast, clear the form, refreshApex
ThenCreate ==
    /\ accountName' = ""
    /\ accountIndustry' = ""
    /\ accountPhone' = ""
    /\ accountDescription' = ""
    /\ accountSite' = ""
    /\ UNCHANGED editVars

\* .then of deleteAccount: toast, refreshApex
ThenDelete == UNCHANGED <<createVars, editVars>>

\* .then of updateAccount without the call of handleCancelEdit()
ThenUpdateKeepsEdit == UNCHANGED <<createVars, editVars>>

\* .then of updateAccount: toast, handleCancelEdit(), refreshApex
ThenUpdate ==
    /\ CancelEdit
    /\ UNCHANGED createVars

\* A .then of deleteAccount that does not return refreshApex(...)
RefreshRequestsNone(kind) == IF kind = "delete" THEN 0 ELSE 1

\* return refreshApex(this.wiredAccountsResult): the refreshes one .then requests
RefreshRequests(kind) == 1

ThenHandler(i) ==
    /\ chains[i].st = "then"
    /\ ShowToast("Success", SuccessMessage(chains[i].kind), "success")
    /\ CASE chains[i].kind = "create" -> ThenCreate
         [] chains[i].kind = "delete" -> ThenDelete
         [] chains[i].kind = "update" -> ThenUpdate
    /\ refreshed' = RefreshRequests(chains[i].kind)
    /\ chains' = [chains EXCEPT ![i].st = "refresh", ![i].args = NoArgs]
    /\ lastOp' = ChainOp("then", chains[i].kind, "", i)
    /\ UNCHANGED <<isLoading, cacheVars, isEditingThisRow, nInputs>>

\* Whether evaluating the message expression of the .catch throws:
\* error.body.message (create) throws when error.body is undefined,
\* error.body?.message (delete, update) does not
CatchThrows(kind, err) == kind = "create" /\ ~err.hasBody

\* The message expression of the .catch
CatchMessage(kind, err) ==
    CASE kind = "create" -> err.message
      [] kind = "delete" ->
           IF err.hasBody /\ Truthy(err.message) THEN err.message ELSE "Delete failed"
      [] kind = "update" ->
           IF err.hasBody /\ Truthy(err.message) THEN err.message ELSE "Update failed"

\* .catch(error => ...): err is the rejection value it receives
CatchHandler(i, err) ==
    /\ chains[i].st = "catch"
    /\ IF CatchThrows(chains[i].kind, err)
         THEN /\ chains' = [chains EXCEPT ![i].st = "finally", ![i].threw = TRUE]
              /\ NoToast
         ELSE /\ ShowToast("Error", CatchMessage(chains[i].kind, err), "error")
              /\ chains' = [chains EXCEPT ![i].st = "finally"]
    /\ lastOp' = ChainOp("catch", chains[i].kind,
                         IF Truthy(err.message) THEN "message" ELSE "nomessage", i)
    /\ refreshed' = 0
    /\ UNCHANGED <<isLoading, cacheVars, createVars, editVars, isEditingThisRow,
                   nInputs>>

\* A .finally that leaves the flag raised
FinallyLoadingStuck(kind) == TRUE

\* this.isLoading = false in every .finally
FinallyLoading(kind) == FALSE

FinallyHandler(i) ==
    /\ chains[i].st = "finally"
    /\ isLoading' = FinallyLoading(chains[i].kind)
    /\ chains' = [chains EXCEPT ![i] = Free]
    /\ lastOp' = ChainOp("finally", chains[i].kind,
                         IF chains[i].threw THEN "threw" ELSE "", i)
    /\ NoToast
    /\ refreshed' = 0
    /\ UNCHANGED <<cacheVars, createVars, editVars, isEditingThisRow, nInputs>>

Resolve == \E i \in Slots : RemoteResolve(i)
Reject == \E i \in Slots : RemoteReject(i)
RefreshDone == \E i \in Slots : RefreshResolve(i)
RefreshFailed == \E i \in Slots : RefreshReject(i)
Then == \E i \in Slots : ThenHandler(i)
Catch == \E i \in Slots, err \in Rejections : CatchHandler(i, err)
Finally == \E i \in Slots : FinallyHandler(i)

-----------------------------------------------------------------------------
Next ==
    \/ WiredAccounts
    \/ HandleNameChange
    \/ HandleIndustryChange
    \/ HandlePhoneChange
    \/ HandleDescriptionChange
    \/ HandleSiteChange
    \/ handleCreateAccount
    \/ HandleDeleteAccount
    \/ renderedCallback
    \/ HandleStartEdit
    \/ HandleEditFieldChange
    \/ handleCancelEdit
    \/ handleSaveEdit
    \/ Resolve
    \/ Reject
    \/ RefreshDone
    \/ RefreshFailed
    \/ Then
    \/ Catch
    \/ Finally

Spec == Init /\ [][Next]_vars

\* The event loop drains the microtask queue: a queued continuation runs
LiveSpec ==
    /\ Spec
    /\ WF_vars(Then)
    /\ WF_vars(Catch)
    /\ WF_vars(Finally)

-----------------------------------------------------------------------------
(* Vocabulary of the properties *)

\* The step runs handler op (a render leaves lastOp and the flag's owner alone)
Step(op) == lastOp'.op = op /\ isEditingThisRow' = isEditingThisRow

OneError(ts) == Len(ts) = 1 /\ ts[1].variant = "error"
OneSuccess(ts) == Len(ts) = 1 /\ ts[1].variant = "success"

AllFree == \A i \in Slots : chains[i].st = "free"

Idle ==
    /\ editRecordId = Null
    /\ editName = "" /\ editIndustry = "" /\ editPhone = ""
    /\ editDescription = "" /\ editSite = ""

\* The step runs the .then, the .catch or the .finally of chain i
ThenStep(i) == chains[i].st = "then" /\ chains'[i].st # "then"
CatchStep(i) == chains[i].st = "catch" /\ chains'[i].st # "catch"
FinallyStep(i) == chains[i].st = "finally" /\ chains'[i].st # "finally"

-----------------------------------------------------------------------------
(* C1: whenever a create, update or delete call has been issued and has    *)
(* not settled, isLoading is true, also while two calls overlap.           *)
C1_LoadingWhileInFlight ==
    (\E i \in Slots : chains[i].st = "remote") => isLoading

-----------------------------------------------------------------------------
(* C2: a successful update leaves the component idle and requests exactly  *)
(* one refresh; a failed update leaves editRecordId and the five edit      *)
(* fields as they were when save was pressed and requests no refresh.      *)

\* The edit state handleSaveEdit passed to updateAccount
SavedEdit(i) ==
    <<chains[i].args.accountId, chains[i].args.name, chains[i].args.industry,
      chains[i].args.phone, chains[i].args.description, chains[i].args.site>>

UpdateSucceeds(i) == chains[i].kind = "update" /\ ThenStep(i)
UpdateFails(i) ==
    chains[i].kind = "update" /\ chains[i].remote = "rejected" /\ CatchStep(i)

\* As claimed: after the failed update the edit state is the one saved
C2_AsWhenSavePressed ==
    [][\A i \in Slots :
         /\ UpdateSucceeds(i) => Idle' /\ refreshed' = 1
         /\ UpdateFails(i) => editVars' = SavedEdit(i) /\ refreshed' = 0]_vars

\* As amended: the continuations of a failed update change no edit state and
\* request no refresh (what the user did while the call was in flight stays)
C2_UpdateOutcome ==
    [][\A i \in Slots :
         /\ UpdateSucceeds(i) => Idle' /\ refreshed' = 1
         /\ (chains[i].kind = "update" /\ chains'[i] # chains[i] /\ ~ThenStep(i))
               => refreshed' = 0
         /\ (chains[i].kind = "update" /\ chains[i].remote = "rejected"
               /\ chains'[i] # chains[i])
               => UNCHANGED editVars /\ refreshed' = 0]_vars

C2_Witness ==
    \E i \in Slots :
        /\ lastOp.op = "catch" /\ lastOp.chain = i
        /\ chains[i].kind = "update" /\ chains[i].remote = "rejected"
        /\ editRecordId = chains[i].args.accountId
        /\ toasts # << >>

-----------------------------------------------------------------------------
(* C3: a rejected create, update or delete call emits exactly one error    *)
(* notification, with the service's message when the rejection has one and *)
(* a generic fallback string otherwise.                                    *)
C3_RejectionToast ==
    \A i \in Slots :
        (lastOp.op = "catch" /\ lastOp.chain = i /\ chains[i].remote = "rejected")
        => /\ OneError(toasts)
           /\ lastOp.out = "message" => toasts[1].message = "Service error"
           /\ lastOp.out # "message" => Truthy(toasts[1].message)

-----------------------------------------------------------------------------
(* C4: once the call of a chain (and the refresh chained after it) has     *)
(* settled, its .finally runs and clears isLoading, whether the call       *)
(* resolved, rejected or the .catch threw; with no chain pending the flag  *)
(* is false.                                                               *)
C4_LoadingCleared ==
    /\ \A i \in Slots : (chains[i].st \in {"catch", "finally"}) ~> (chains[i].st = "free")
    /\ [][\A i \in Slots : FinallyStep(i) => chains'[i].st = "free" /\ ~isLoading']_vars
    /\ [](AllFree => ~isLoading)

C4_Witness ==
    lastOp.op = "finally" /\ lastOp.arg = "create" /\ lastOp.out = "threw"
    /\ AllFree /\ ~isLoading

-----------------------------------------------------------------------------
(* C5: handleCreateAccount with an empty accountName calls no remote       *)
(* operation, emits exactly one error notification and changes nothing     *)
(* else.                                                                   *)
C5_EmptyNameRejected ==
    [][(Step("handleCreateAccount") /\ accountName = "")
         => /\ chains' = chains
            /\ OneError(toasts')
            /\ refreshed' = 0
            /\ UNCHANGED <<isLoading, createVars, editVars, cacheVars>>]_vars

C5_Witness ==
    /\ lastOp.op = "handleCreateAccount" /\ lastOp.out = "invalid"
    /\ accountName = "" /\ accountSite = "x"
    /\ OneError(toasts)

-----------------------------------------------------------------------------
(* C6: handleStartEdit on an id that is not in the cached collection emits *)
(* exactly one error notification and leaves the edit state unchanged, in  *)
(* every state of the cache, also before the first fetch and after a       *)
(* failed one.                                                             *)
NotCached(accountId) == ~accounts.set \/ Find(accounts.rows, accountId) = 0

C6_UnknownIdRejected ==
    [][(Step("handleStartEdit") /\ NotCached(lastOp'.arg))
         => OneError(toasts') /\ UNCHANGED editVars]_vars

-----------------------------------------------------------------------------
(* C7: accounts and error are never both populated; a successful fetch     *)
(* (also of an empty collection) sets accounts to the collection returned  *)
(* and empties error; a failed fetch empties accounts, stores the error    *)
(* and emits exactly one error notification; after either exactly one of   *)
(* the two is populated.                                                   *)
C7_FetchOutcome ==
    /\ ~(accounts.set /\ error # Undef)
    /\ (lastOp.op = "wiredAccounts" /\ wiredAccountsResult.data.set)
         => /\ accounts = wiredAccountsResult.data
            /\ error = Undef
            /\ toasts = << >>
    /\ (lastOp.op = "wiredAccounts" /\ ~wiredAccountsResult.data.set
          /\ wiredAccountsResult.error # Undef)
         => /\ ~accounts.set
            /\ error = wiredAccountsResult.error
            /\ OneError(toasts)

C7_Witness ==
    /\ lastOp.op = "wiredAccounts"
    /\ wiredAccountsResult.error # Undef
    /\ ~accounts.set /\ error # Undef
    /\ editRecordId # Null

-----------------------------------------------------------------------------
(* C8: handleCreateAccount with a non-empty name calls createAccount once, *)
(* with the five create-form values of that moment; when the call resolves *)
(* one success notification is emitted, the five create-form fields are    *)
(* empty and one refresh is requested.                                     *)
C8_CreateFlow ==
    [][/\ (Step("handleCreateAccount") /\ accountName # "")
            => \E i \in Slots :
                  /\ chains[i] = Free
                  /\ chains'[i].kind = "create" /\ chains'[i].st = "remote"
                  /\ chains'[i].args =
                        [accountId |-> Null, name |-> accountName,
                         industry |-> accountIndustry, phone |-> accountPhone,
                         description |-> accountDescription, site |-> accountSite]
                  /\ \A j \in Slots \ {i} : chains'[j] = chains[j]
       /\ \A i \in Slots :
             (chains[i].kind = "create" /\ ThenStep(i))
             => /\ OneSuccess(toasts')
                /\ accountName' = "" /\ accountIndustry' = "" /\ accountPhone' = ""
                /\ accountDescription' = "" /\ accountSite' = ""
                /\ refreshed' = 1]_vars

C8_Witness ==
    /\ lastOp.op = "then" /\ lastOp.arg = "create"
    /\ OneSuccess(toasts) /\ refreshed = 1
    /\ accountName = "" /\ nInputs = 1

-----------------------------------------------------------------------------
(* C9: handleStartEdit on a cached id followed at once by handleCancelEdit *)
(* leaves editRecordId unset and the five edit fields empty, with no       *)
(* remote call, no notification, and isLoading and the cache unchanged.    *)
C9_StartThenCancel ==
    [][/\ (Step("handleStartEdit") /\ lastOp'.out = "found")
            => /\ toasts' = << >> /\ refreshed' = 0
               /\ UNCHANGED <<chains, isLoading, cacheVars>>
       /\ (lastOp.op = "handleStartEdit" /\ lastOp.out = "found"
             /\ Step("handleCancelEdit"))
            => /\ Idle'
               /\ toasts' = << >> /\ refreshed' = 0
               /\ UNCHANGED <<chains, isLoading, cacheVars>>]_vars

C9_Witness ==
    /\ lastOp.op = "handleCancelEdit" /\ lastOp.arg = "handleStartEdit"
    /\ lastOp.out = "found"
    /\ Idle

-----------------------------------------------------------------------------
(* C10: a declined confirmation of handleDeleteAccount issues no remote    *)
(* call, emits no notification and changes no component state.             *)
C10_DeclinedDelete ==
    [][(Step("handleDeleteAccount") /\ lastOp'.out = "declined")
         => /\ toasts' = << >> /\ refreshed' = 0
            /\ UNCHANGED <<chains, isLoading, cacheVars, createVars, editVars>>]_vars

C10_Witness ==
    /\ lastOp.op = "handleDeleteAccount" /\ lastOp.out = "declined"
    /\ ~isLoading /\ AllFree
    /\ accounts.set /\ editRecordId # Null

-----------------------------------------------------------------------------
(* C11: handleStartEdit on an id X of the cached collection sets           *)
(* editRecordId to X and each of the five edit fields to the field of the  *)
(* cached record with id X, a missing field becoming the empty string; it  *)
(* replaces the previous edit session, issues no remote call and emits no  *)
(* notification.                                                           *)
Cached(accountId) ==
    accounts.set /\ \E k \in 1..Len(accounts.rows) : accounts.rows[k].Id = accountId

C11_StartEditCopies ==
    [][(Step("handleStartEdit") /\ Cached(lastOp'.arg))
         => /\ editRecordId' = lastOp'.arg
            /\ \E k \in 1..Len(accounts.rows) :
                  LET r == accounts.rows[k]
                      Default(v) == IF v = Undef THEN "" ELSE v
                  IN  /\ r.Id = lastOp'.arg
                      /\ editName' = Default(r.Name)
                      /\ editIndustry' = Default(r.Industry)
                      /\ editPhone' = Default(r.Phone)
                      /\ editDescription' = Default(r.Description)
                      /\ editSite' = Default(r.Site)
            /\ toasts' = << >>
            /\ chains' = chains]_vars

C11_Witness ==
    /\ lastOp.op = "handleStartEdit" /\ lastOp.arg = "1" /\ lastOp.out = "found"
    /\ editRecordId = "1"
    /\ editName = "Acme" /\ editIndustry = "" /\ editPhone = ""
    /\ editDescription = "" /\ editSite = ""

-----------------------------------------------------------------------------
(* C12: from the issue of a create, update or delete call up to its        *)
(* successful resolution the handler and the continuations change no       *)
(* component state but isLoading; a rejected call leaves the create form,  *)
(* editRecordId, the edit fields and the cached collection as they are     *)
(* (only isLoading and the notifications differ).                          *)

\* The step belongs to chain i (issue, settlement or continuation) and the
\* call of the chain has not resolved before it
UnresolvedStep(i) == chains'[i] # chains[i] /\ chains[i].remote # "resolved"

C12_NoOptimisticMutation ==
    [][\A i \in Slots :
         UnresolvedStep(i)
         => UNCHANGED <<createVars, editVars, cacheVars, isEditingThisRow>>]_vars

C12_Witness ==
    /\ lastOp.op = "catch" /\ lastOp.arg = "create"
    /\ chains[lastOp.chain].remote = "rejected"
    /\ OneError(toasts)
    /\ accountName = "x" /\ accountIndustry = "x"

-----------------------------------------------------------------------------
(* C13: handleSaveEdit with editRecordId unset, or with editName empty,    *)
(* never calls updateAccount, emits exactly one error notification and     *)
(* leaves editRecordId, the five edit fields and isLoading unchanged.      *)
C13_InvalidSaveRejected ==
    [][(Step("handleSaveEdit") /\ (editRecordId = Null \/ editName = ""))
         => /\ chains' = chains
            /\ OneError(toasts')
            /\ refreshed' = 0
            /\ UNCHANGED <<editVars, isLoading>>]_vars

C13_Witness ==
    /\ lastOp.op = "handleSaveEdit" /\ lastOp.out = "noName"
    /\ editRecordId = "2" /\ editName = "" /\ editSite = "site"
    /\ OneError(toasts)
    /\ AllFree /\ ~isLoading

-----------------------------------------------------------------------------
(* C14: refreshApex is requested only by the .then of a create, update or  *)
(* delete call that has resolved, once per resolved call, and that .then   *)
(* does run: the refresh requests are as many as the resolved calls, and a *)
(* rejected or pending call has contributed none.                          *)
C14_RefreshAfterSuccess ==
    /\ [](refreshed = IF lastOp.op = "then" THEN 1 ELSE 0)
    /\ [](lastOp.op = "then"
            => /\ chains[lastOp.chain].remote = "resolved"
               /\ chains[lastOp.chain].st = "refresh")
    /\ [](\A i \in Slots :
            chains[i].st \in {"then", "refresh"} => chains[i].remote = "resolved")
    /\ \A i \in Slots :
          (chains[i].st = "then")
             ~> (chains[i].st = "refresh" /\ lastOp.op = "then" /\ lastOp.chain = i
                   /\ refreshed = 1)

C14_Witness ==
    /\ lastOp.op = "then" /\ lastOp.arg = "delete"
    /\ refreshed = 1
    /\ \E j \in Slots : j # lastOp.chain /\ chains[j].st = "remote"

-----------------------------------------------------------------------------
(* C15: overlapping actions are neither rejected nor cancelled: a valid    *)
(* handleCreateAccount or handleSaveEdit, or a confirmed                   *)
(* handleDeleteAccount, run while isLoading is true issues a second call   *)
(* alongside the first; no later user action touches a call that has been  *)
(* issued, and its continuations run when it settles.                      *)

\* The step is a valid submit of one of the three mutation handlers
Submit ==
    \/ Step("handleCreateAccount") /\ accountName # ""
    \/ Step("handleSaveEdit") /\ editRecordId # Null /\ editName # ""
    \/ Step("handleDeleteAccount") /\ lastOp'.out = "confirmed"

\* The step is the run of an event handler, not of a chain
UserAction == lastOp'.chain = 0 /\ lastOp' # lastOp

C15_NoMutexNoCancel ==
    /\ [][(isLoading /\ Submit)
            => \E i \in Slots :
                  /\ chains[i].st = "free"
                  /\ chains'[i].st = "remote"
                  /\ \A j \in Slots \ {i} : chains'[j] = chains[j]]_vars
    /\ [][UserAction
            => \A i \in Slots : chains[i].st # "free" => chains'[i] = chains[i]]_vars
    \* a queued .then runs up to its refresh, a queued .catch up to the end of
    \* the chain
    /\ \A i \in Slots :
          (chains[i].st \in {"then", "catch"}) ~> (chains[i].st \in {"refresh", "free"})

C15_Witness ==
    /\ lastOp.op = "handleSaveEdit" /\ lastOp.out = "called"
    /\ isLoading
    /\ \E i, j \in Slots :
          /\ chains[i].kind = "create" /\ chains[i].st = "remote"
          /\ chains[j].kind = "update" /\ chains[j].st = "remote"

-----------------------------------------------------------------------------
(* C16: after every render pass, for every rendered row r the flag used    *)
(* for r equals (editRecordId = id of r): true for exactly the edited row, *)
(* false for every other row, also with several rows and an edited row     *)
(* that is not the first; false for all rows with no edit in progress.     *)
C16_RowFlagPerRow ==
    (accounts.set /\ ~RenderPending)
    => \A k \in 1..Len(accounts.rows) :
          isEditingThisRow = (editRecordId = accounts.rows[k].Id)

-----------------------------------------------------------------------------
(* C17: handleEditFieldChange with the name of one of the five edit fields *)
(* sets that field to the event value and leaves the other four,           *)
(* editRecordId, the create form, isLoading and the cached collection      *)
(* unchanged; with any other name it changes nothing; each create-form     *)
(* change handler changes only its own field. None of them issues a remote *)
(* call or a notification.                                                 *)

\* Of the fields <<f1, ..>> named <<n1, ..>> the one named name takes value,
\* the others stay
OnlyNamed(names, old, new, name, value) ==
    \A k \in 1..Len(names) :
        new[k] = IF names[k] = name THEN value ELSE old[k]

CreateHandlers ==
    <<"handleNameChange", "handleIndustryChange", "handlePhoneChange",
      "handleDescriptionChange", "handleSiteChange">>

EditNames == <<"editName", "editIndustry", "editPhone", "editDescription", "editSite">>

C17_FieldChangeFrame ==
    [][/\ Step("handleEditFieldChange")
            => /\ OnlyNamed(EditNames,
                            <<editName, editIndustry, editPhone, editDescription, editSite>>,
                            <<editName', editIndustry', editPhone', editDescription', editSite'>>,
                            lastOp'.arg, lastOp'.out)
               /\ toasts' = << >>
               /\ UNCHANGED <<editRecordId, createVars, isLoading, cacheVars, chains>>
       /\ (\E k \in 1..5 : Step(CreateHandlers[k]))
            => /\ OnlyNamed(CreateHandlers,
                            <<accountName, accountIndustry, accountPhone,
                              accountDescription, accountSite>>,
                            <<accountName', accountIndustry', accountPhone',
                              accountDescription', accountSite'>>,
                            lastOp'.op, lastOp'.out)
               /\ toasts' = << >>
               /\ UNCHANGED <<editVars, isLoading, cacheVars, chains>>]_vars

C17_Witness ==
    /\ lastOp.op = "handleEditFieldChange" /\ lastOp.arg = "editIndustry"
    /\ lastOp.out = "x"
    /\ editRecordId = "1" /\ editName = "Acme" /\ editIndustry = "x"
    /\ editPhone = "" /\ editDescription = "" /\ editSite = ""

-----------------------------------------------------------------------------
(* C18: every create, update or delete call that settles has exactly one   *)
(* notification emitted by its own chain: a success notification iff the   *)
(* call resolved, an error notification iff it rejected; a call that       *)
(* resolved never has its chain emit an error notification, also when the  *)
(* refresh chained after it fails.                                         *)
C18_OneNotificationPerCall ==
    /\ lastOp.op = "then" => OneSuccess(toasts)
    /\ lastOp.op = "catch"
         => IF chains[lastOp.chain].remote = "rejected"
              THEN OneError(toasts)
              ELSE toasts = << >>
    /\ lastOp.op \in {"resolve", "reject", "refreshResolve", "refreshReject", "finally"}
         => toasts = << >>

-----------------------------------------------------------------------------
(* C19: the .then of an update for record X ends only the edit session     *)
(* that issued it: when the user has started an edit on another record Y   *)
(* (or changed edit fields) while the update was in flight, after the      *)
(* update resolves editRecordId is still Y and the edit fields entered for *)
(* Y are preserved.                                                        *)
C19_ThenEndsOwnSession ==
    [][\A i \in Slots :
         (UpdateSucceeds(i) /\ editRecordId # Null /\ editVars # SavedEdit(i))
         => UNCHANGED editVars]_vars

-----------------------------------------------------------------------------
(* C20: isLoading = true implies that a create, update or delete chain has *)
(* been started and has not yet run its finally (so with no chain pending, *)
(* initially and after all chains have finished, isLoading is false), and  *)
(* only the three mutation handlers and the finally steps write isLoading. *)
C20_LoadingOwnedByChains ==
    /\ [](isLoading => \E i \in Slots : chains[i].st # "free")
    /\ [][isLoading' # isLoading => (Submit \/ \E i \in Slots : FinallyStep(i))]_vars

C20_Witness ==
    /\ isLoading
    /\ lastOp.op = "catch"
    /\ \E i \in Slots :
          /\ chains[i].st = "finally"
          /\ \A j \in Slots \ {i} : chains[j].st = "free"

====
